---- MODULE Spec2Model ----
(***************************************************************************)
(* Model of the voice assistant controller of src/App.tsx: the App        *)
(* component's state (status, conversation, error, transcript and refs),   *)
(* its handlers (handleMicClick, the recognition callbacks, the utterance  *)
(* callbacks, initialize, processUserMessage, speak) and the three         *)
(* asynchronous collaborators that call them back: the speech recognition  *)
(* session, the speech synthesis queue and the chat backend.               *)
(*                                                                         *)
(* Every handler runs to completion on the single event loop, and React    *)
(* commits the state it set (and re-runs the effects) before the next      *)
(* event is dispatched, so one action is one event with its whole handler. *)
(* Strings are sequences of one-character strings.                         *)
(***************************************************************************)
EXTENDS Integers, Sequences, FiniteSets, TLC

\* ---------------------------------------------------------------- bounds

\* Listening sessions (taps that start a capture) in one behaviour.
MaxTurns == 2
\* Final fragments the recognizer delivers in one behaviour.
MaxFinals == 2
\* Cancelled utterances whose end/error event is still to be delivered.
MaxCancelled == 1
\* Voices in the catalog speechSynthesis.getVoices() returns.
MaxVoices == 2

\* ---------------------------------------------------------------- values

\* AppStatus (imported from ./types, used at lines 60..231).
IDLE == "IDLE"
LISTENING == "LISTENING"
THINKING == "THINKING"
SPEAKING == "SPEAKING"
ERROR == "ERROR"
AppStatus == {IDLE, LISTENING, THINKING, SPEAKING, ERROR}

\* error: string | null (line 62) and the messages the handlers set.
NoError == "null"
ErrSynthesis == "Desole, une erreur de synthese vocale est survenue."
ErrNotInitialized == "La session de chat n'est pas initialisee."
ErrUnsupported == "L'API de reconnaissance vocale n'est pas supportee par ce navigateur."
ErrRecognition == "Une erreur de reconnaissance vocale est survenue."
ErrPermission == "L'acces au microphone est refuse."
ErrBackend == "e.message"

\* Whitespace removed by String.prototype.trim.
Whitespace == {" "}

\* Transcripts of the fragments the recognizer delivers: empty, a word, and a
\* word with the leading space of a continuation result.
FragmentTexts == { <<>>, <<"a">>, <<" ", "a">> }
Fragments == [transcript : FragmentTexts, isFinal : BOOLEAN]
\* Result batches results[resultIndex ..]: one fragment, or two.
Batches == { <<f>> : f \in Fragments } \cup { <<f, g>> : f, g \in Fragments }

\* event.error codes of SpeechRecognitionErrorEvent.
ErrorCodes == {"not-allowed", "service-not-allowed", "network"}

\* Texts the backend replies with; the second carries markdown emphasis.
Replies == { <<"r">>, <<"*", "r">> }

\* Outcomes of sendMessageToGemini (services/geminiService): the awaited
\* promise resolves with the assistant text or rejects.
SendOutcomes == {"reply", "failure"}
\* Outcomes of createChatSession (services/geminiService): a handle, or a throw.
CreateOutcomes == {"handle", "throw"}

\* ---------------------------------------------------------------- strings

RECURSIVE TrimStart(_)
TrimStart(s) ==
    IF s # <<>> /\ Head(s) \in Whitespace THEN TrimStart(Tail(s)) ELSE s

RECURSIVE TrimEnd(_)
TrimEnd(s) ==
    IF s # <<>> /\ s[Len(s)] \in Whitespace
    THEN TrimEnd(SubSeq(s, 1, Len(s) - 1))
    ELSE s

\* String.prototype.trim (lines 100 and 200).
Trim(s) == TrimEnd(TrimStart(s))

\* text.replace(/\*/g, '') (line 76).
CleanedText(text) == SelectSeq(text, LAMBDA c : c # "*")

\* Mutant of FinalAfter: only results[resultIndex] is read, the rest of the
\* batch is skipped.
FinalAfterFirstOnly(acc, batch) ==
    IF batch # <<>> /\ Head(batch).isFinal
    THEN acc \o Head(batch).transcript \o <<" ">>
    ELSE acc

\* The loop of onresult over results[resultIndex ..] (lines 133..140): what it
\* leaves in finalTranscriptRef.current, started from acc.
RECURSIVE FinalAfter(_, _)
FinalAfter(acc, batch) ==
    IF batch = <<>> THEN acc
    ELSE FinalAfter(IF Head(batch).isFinal
                    THEN acc \o Head(batch).transcript \o <<" ">>
                    ELSE acc,
                    Tail(batch))

\* ... and what it leaves in interimTranscript.
RECURSIVE InterimOf(_)
InterimOf(batch) ==
    IF batch = <<>> THEN <<>>
    ELSE (IF Head(batch).isFinal THEN <<>> ELSE Head(batch).transcript)
         \o InterimOf(Tail(batch))

\* The isFinal fragments of a batch, in order (what the recognizer committed).
RECURSIVE FinalsOf(_)
FinalsOf(batch) ==
    IF batch = <<>> THEN <<>>
    ELSE (IF Head(batch).isFinal THEN <<Head(batch).transcript>> ELSE <<>>)
         \o FinalsOf(Tail(batch))

\* Ordered concatenation of fragments separated by single spaces.
RECURSIVE JoinSpace(_)
JoinSpace(fs) ==
    IF fs = <<>> THEN <<>>
    ELSE IF Len(fs) = 1 THEN fs[1]
    ELSE fs[1] \o <<" ">> \o JoinSpace(Tail(fs))

UserMessage(text) == [role |-> "user", text |-> text]
AssistantMessage(text) == [role |-> "assistant", text |-> text]

\* ---------------------------------------------------------------- state

VARIABLES
    status,          \* useState<AppStatus> (line 60)
    conversation,    \* useState<ChatMessage[]> (line 61)
    error,           \* useState<string | null> (line 62)
    transcript,      \* useState('') (line 63)
    finalTranscript, \* finalTranscriptRef.current (line 69)
    chatSession,     \* chatSessionRef.current # null (line 65)
    recognition,     \* speechRecognitionRef.current and its capture session:
                     \* "none" (no object), "inactive", "active", "stopping"
                     \* (stop() requested), "errored" (error fired, end pending)
    utterance,       \* the utterance speechSynthesis is speaking, if any
    cancelled,       \* cancelled utterances whose end/error event is pending
    boot,            \* initialize: "start", "inflight" (awaiting line 155), "done"
    turnCalls,       \* sendMessageToGemini calls of line 113 awaiting their result
    turns,           \* Listening sessions started so far
    finals,          \* final fragments delivered so far
    event,           \* history: the event handled last
    delivered,       \* history: final fragments delivered in this Listening session
    stopAt,          \* history: Len(delivered) when stop() was requested, or -1
    consumed,        \* history: the processUserMessage call of the last event
    voices,          \* what window.speechSynthesis.getVoices() returns (line 168)
    selectedVoice    \* selectedVoiceRef.current (line 68)

program == <<status, conversation, error, transcript, finalTranscript,
             chatSession, recognition, utterance, cancelled, boot, turnCalls>>
history == <<turns, finals, event, delivered, stopAt, consumed>>
voiceState == <<voices, selectedVoice>>
vars == <<program, history, voiceState>>

\* speechSynthesis is speaking nothing.
NoUtterance == [speaking |-> FALSE, text |-> <<>>]

\* selectedVoiceRef.current = null.
NoVoice == [name |-> <<>>, lang |-> "null", default |-> FALSE]

\* No processUserMessage call was made by the last event.
NoCall == [called |-> FALSE, text |-> <<>>, finals |-> <<>>, stopAt |-> -1]

ProgramInit ==
    /\ status = IDLE
    /\ conversation = <<>>
    /\ error = NoError
    /\ transcript = <<>>
    /\ finalTranscript = <<>>
    /\ chatSession = FALSE
    /\ recognition = "none"
    /\ utterance = NoUtterance
    /\ cancelled = 0
    /\ boot = "start"
    /\ turnCalls = 0
    /\ turns = 0
    /\ finals = 0
    /\ event = "render"
    /\ delivered = <<>>
    /\ stopAt = -1
    /\ consumed = NoCall
    /\ selectedVoice = NoVoice

\* The component before its mount effect runs; the platform has loaded no
\* voice yet.
Init ==
    /\ ProgramInit
    /\ voices = <<>>

\* The last event made no processUserMessage call.
Handled(e) == event' = e /\ consumed' = NoCall

\* ------------------------------------------------------- speech synthesis

\* window.speechSynthesis.cancel() (lines 73 and 219): the utterance being
\* spoken stops at once; whether the platform still delivers an end or error
\* event for it afterwards is the platform's choice.
CancelChoices ==
    { fires \in BOOLEAN : fires => (utterance.speaking /\ cancelled < MaxCancelled) }
Cancel(fires) ==
    cancelled' = IF fires THEN cancelled + 1 ELSE cancelled

\* Mutant of UtteranceOnEnd: the end of the utterance leaves the status alone.
UtteranceOnEndKeepsStatus == UNCHANGED <<status, error>>

\* utterance.onend (lines 88..90).
UtteranceOnEnd ==
    /\ status' = IDLE
    /\ UNCHANGED error

\* utterance.onerror (lines 91..95).
UtteranceOnError ==
    /\ error' = ErrSynthesis
    /\ status' = ERROR

\* speak (lines 71..97); window.speechSynthesis exists (line 168 reads it
\* unguarded on mount).
Speak(text, fires) ==
    /\ Cancel(fires)
    /\ status' = SPEAKING
    /\ utterance' = [speaking |-> TRUE, text |-> CleanedText(text)]

\* The utterance being spoken finishes: its end event.
SynthEnd ==
    /\ utterance.speaking
    /\ utterance' = NoUtterance
    /\ UtteranceOnEnd
    /\ Handled("synthEnd")
    /\ UNCHANGED <<conversation, transcript, finalTranscript, chatSession,
                   recognition, cancelled, boot, turnCalls, turns, finals, delivered, stopAt>>
    /\ UNCHANGED voiceState

\* The utterance being spoken fails: its error event.
SynthError ==
    /\ utterance.speaking
    /\ utterance' = NoUtterance
    /\ UtteranceOnError
    /\ Handled("synthError")
    /\ UNCHANGED <<conversation, transcript, finalTranscript, chatSession,
                   recognition, cancelled, boot, turnCalls, turns, finals, delivered, stopAt>>
    /\ UNCHANGED voiceState

\* The end event of an utterance that was cancelled earlier.
LateSynthEnd ==
    /\ cancelled > 0
    /\ cancelled' = cancelled - 1
    /\ UtteranceOnEnd
    /\ Handled("lateSynthEnd")
    /\ UNCHANGED <<conversation, transcript, finalTranscript, chatSession,
                   recognition, utterance, boot, turnCalls, turns, finals, delivered, stopAt>>
    /\ UNCHANGED voiceState

\* The error event ("interrupted" / "canceled") of a cancelled utterance.
LateSynthError ==
    /\ cancelled > 0
    /\ cancelled' = cancelled - 1
    /\ UtteranceOnError
    /\ Handled("lateSynthError")
    /\ UNCHANGED <<conversation, transcript, finalTranscript, chatSession,
                   recognition, utterance, boot, turnCalls, turns, finals, delivered, stopAt>>
    /\ UNCHANGED voiceState

\* -------------------------------------------------------- voice selection

\* The locale every test of lines 172..176 compares v.lang with.
SessionLocale == "fr-FR"
Langs == {SessionLocale, "en-US"}
\* Voice names, as sequences of words.
VoiceNames ==
    { <<"Google", "francais">>, <<"Aurelie">>, <<"Female">>, <<"Femme">>, <<"Thomas">> }
\* The SpeechSynthesisVoice objects of the platform: name, lang, default.
Voices ==
    { v \in [name : VoiceNames, lang : Langs, default : BOOLEAN] :
        /\ v.default => v.name = <<"Thomas">>
        /\ v.lang # SessionLocale => v.name \in { <<"Google", "francais">>, <<"Thomas">> } }
\* The catalogs getVoices() can return.
Catalogs == UNION { [1..n -> Voices] : n \in 0..MaxVoices }

\* v.name.includes(marker), for a marker that is one word.
Includes(name, marker) == \E i \in 1..Len(name) : name[i] = marker

\* The tests of the five find calls of lines 172..176.
IsGoogleAnyLocale(v) == Includes(v.name, "Google")
IsGoogle(v) == v.lang = SessionLocale /\ Includes(v.name, "Google")
IsAurelie(v) == v.lang = SessionLocale /\ Includes(v.name, "Aurelie")
IsFemale(v) ==
    v.lang = SessionLocale /\ (Includes(v.name, "Female") \/ Includes(v.name, "Femme"))
IsDefault(v) == v.lang = SessionLocale /\ v.default
IsFrench(v) == v.lang = SessionLocale

\* The voices that pass each test.
Google == { v \in Voices : IsGoogle(v) }
Aurelie == { v \in Voices : IsAurelie(v) }
Female == { v \in Voices : IsFemale(v) }
Default == { v \in Voices : IsDefault(v) }
French == { v \in Voices : IsFrench(v) }

\* voices.find(test): the first voice of the catalog among those passing the
\* test, or undefined.
Find(catalog, passing) ==
    IF \E i \in 1..Len(catalog) : catalog[i] \in passing
    THEN catalog[CHOOSE i \in 1..Len(catalog) :
                    /\ catalog[i] \in passing
                    /\ \A j \in 1..(i - 1) : catalog[j] \notin passing]
    ELSE NoVoice
\* a || b on voices: b when a is undefined.
OrElse(a, b) == IF a # NoVoice THEN a ELSE b

\* frenchVoice || null (lines 171..178).
FrenchVoice(catalog) ==
    OrElse(Find(catalog, Google),
    OrElse(Find(catalog, Aurelie),
    OrElse(Find(catalog, Female),
    OrElse(Find(catalog, Default),
           Find(catalog, French)))))

\* loadVoices (lines 167..179) when getVoices() returns catalog.
LoadVoices(catalog) ==
    selectedVoice' = IF Len(catalog) = 0 THEN selectedVoice ELSE FrenchVoice(catalog)

\* The platform changes its catalog and fires voiceschanged: the handler
\* installed on mount (line 181) runs loadVoices.
VoicesChanged ==
    /\ boot # "start"
    /\ \E catalog \in Catalogs :
          /\ voices' = catalog
          /\ LoadVoices(catalog)
    /\ UNCHANGED <<program, history>>

\* ------------------------------------------------------------- bootstrap

\* The mount effect (lines 166..191): loadVoices() of line 182 on the current
\* catalog, then initialize (lines 118..164) up to its first await or its catch.
\* No SpeechRecognition constructor: the throw of line 124.
MountUnsupported ==
    /\ boot = "start"
    /\ boot' = "done"
    /\ error' = ErrUnsupported
    /\ status' = ERROR
    /\ Handled("mount")
    /\ UNCHANGED <<conversation, transcript, finalTranscript, chatSession,
                   recognition, utterance, cancelled, turnCalls, turns, finals, delivered, stopAt>>
    /\ LoadVoices(voices)
    /\ UNCHANGED voices

\* The recognizer is built and its callbacks set; createChatSession throws.
MountCreateFails ==
    /\ boot = "start"
    /\ "throw" \in CreateOutcomes
    /\ boot' = "done"
    /\ recognition' = "inactive"
    /\ error' = ErrBackend
    /\ status' = ERROR
    /\ Handled("mount")
    /\ UNCHANGED <<conversation, transcript, finalTranscript, chatSession,
                   utterance, cancelled, turnCalls, turns, finals, delivered, stopAt>>
    /\ LoadVoices(voices)
    /\ UNCHANGED voices

\* The recognizer is built, the chat session created, the greeting requested.
MountSends ==
    /\ boot = "start"
    /\ "handle" \in CreateOutcomes
    /\ boot' = "inflight"
    /\ recognition' = "inactive"
    /\ chatSession' = TRUE
    /\ status' = THINKING
    /\ Handled("mount")
    /\ UNCHANGED <<conversation, error, transcript, finalTranscript,
                   utterance, cancelled, turnCalls, turns, finals, delivered, stopAt>>
    /\ LoadVoices(voices)
    /\ UNCHANGED voices

\* The greeting arrives (lines 156..157).
BootReply ==
    /\ boot = "inflight"
    /\ "reply" \in SendOutcomes
    /\ boot' = "done"
    /\ \E r \in Replies, fires \in CancelChoices :
          /\ conversation' = << AssistantMessage(r) >>
          /\ Speak(r, fires)
    /\ Handled("bootReply")
    /\ UNCHANGED <<error, transcript, finalTranscript, chatSession,
                   recognition, turnCalls, turns, finals, delivered, stopAt>>
    /\ UNCHANGED voiceState

\* Mutant of BootFail: initialize has no catch, as processUserMessage has none.
BootFailUncaught ==
    /\ boot = "inflight"
    /\ "failure" \in SendOutcomes
    /\ boot' = "done"
    /\ Handled("bootFail")
    /\ UNCHANGED <<status, conversation, error, transcript, finalTranscript,
                   chatSession, recognition, utterance, cancelled, turnCalls,
                   turns, finals, delivered, stopAt>>
    /\ UNCHANGED voiceState

\* The greeting request rejects: the catch of lines 159..163.
BootFail ==
    /\ boot = "inflight"
    /\ "failure" \in SendOutcomes
    /\ boot' = "done"
    /\ error' = ErrBackend
    /\ status' = ERROR
    /\ Handled("bootFail")
    /\ UNCHANGED <<conversation, transcript, finalTranscript, chatSession,
                   recognition, utterance, cancelled, turnCalls, turns, finals, delivered, stopAt>>
    /\ UNCHANGED voiceState

\* ------------------------------------------------------------ user turns

\* Mutant of IsBlank: the early return of line 100 is never taken.
IsBlankNever(text) == FALSE

\* if (!text.trim()) of line 100.
IsBlank(text) == Trim(text) = <<>>

\* Mutant of ProcessUserMessage: the User message of line 104 is not appended.
ProcessUserMessageNoAppend(text) ==
    IF IsBlank(text)
    THEN /\ status' = IDLE
         /\ UNCHANGED <<conversation, error, turnCalls>>
    ELSE /\ UNCHANGED conversation
         /\ IF ~chatSession
            THEN /\ error' = ErrNotInitialized
                 /\ status' = ERROR
                 /\ UNCHANGED turnCalls
            ELSE /\ status' = THINKING
                 /\ turnCalls' = turnCalls + 1
                 /\ UNCHANGED error

\* processUserMessage (lines 99..116) up to its await: the state it sets.
ProcessUserMessage(text) ==
    IF IsBlank(text)
    THEN /\ status' = IDLE
         /\ UNCHANGED <<conversation, error, turnCalls>>
    ELSE /\ conversation' = Append(conversation, UserMessage(text))
         /\ IF ~chatSession
            THEN /\ error' = ErrNotInitialized
                 /\ status' = ERROR
                 /\ UNCHANGED turnCalls
            ELSE /\ status' = THINKING
                 /\ turnCalls' = turnCalls + 1
                 /\ UNCHANGED error

\* Mutant of TurnReply: the reply replaces the log, as line 156 does for the
\* greeting, instead of being appended to it.
TurnReplyReplaces ==
    /\ turnCalls > 0
    /\ "reply" \in SendOutcomes
    /\ turnCalls' = turnCalls - 1
    /\ \E r \in Replies, fires \in CancelChoices :
          /\ conversation' = << AssistantMessage(r) >>
          /\ Speak(r, fires)
    /\ Handled("turnReply")
    /\ UNCHANGED <<error, transcript, finalTranscript, chatSession,
                   recognition, boot, turns, finals, delivered, stopAt>>
    /\ UNCHANGED voiceState

\* The awaited call of line 113 resolves (lines 114..115).
TurnReply ==
    /\ turnCalls > 0
    /\ "reply" \in SendOutcomes
    /\ turnCalls' = turnCalls - 1
    /\ \E r \in Replies, fires \in CancelChoices :
          /\ conversation' = Append(conversation, AssistantMessage(r))
          /\ Speak(r, fires)
    /\ Handled("turnReply")
    /\ UNCHANGED <<error, transcript, finalTranscript, chatSession,
                   recognition, boot, turns, finals, delivered, stopAt>>
    /\ UNCHANGED voiceState

\* The awaited call of line 113 rejects: processUserMessage has no catch, the
\* rejection is unhandled and nothing after line 113 runs.
TurnFail ==
    /\ turnCalls > 0
    /\ "failure" \in SendOutcomes
    /\ turnCalls' = turnCalls - 1
    /\ Handled("turnFail")
    /\ UNCHANGED <<status, conversation, error, transcript, finalTranscript,
                   chatSession, recognition, utterance, cancelled, boot,
                   turns, finals, delivered, stopAt>>
    /\ UNCHANGED voiceState

\* -------------------------------------------------------- speech capture

\* recognition.start() (line 230): begins a session; no-op on a live one.
Started(rec) == IF rec = "inactive" THEN "active" ELSE rec
\* recognition.stop() (lines 225): requests the end of an active session.
Stopped(rec) == IF rec = "active" THEN "stopping" ELSE rec

\* onresult (lines 131..142) on a batch results[resultIndex ..].
RecResult ==
    /\ recognition \in {"active", "stopping"}
    /\ \E batch \in Batches :
          /\ finals + Len(FinalsOf(batch)) <= MaxFinals
          /\ finals' = finals + Len(FinalsOf(batch))
          /\ finalTranscript' = FinalAfter(finalTranscript, batch)
          /\ transcript' = FinalAfter(finalTranscript, batch) \o InterimOf(batch)
          /\ delivered' = delivered \o FinalsOf(batch)
    /\ Handled("result")
    /\ UNCHANGED <<status, conversation, error, chatSession, recognition,
                   utterance, cancelled, boot, turnCalls, turns, stopAt>>
    /\ UNCHANGED voiceState

\* onerror (lines 143..151); the session then only has its end event left.
RecError ==
    /\ recognition \in {"active", "stopping"}
    /\ recognition' = "errored"
    /\ \E code \in ErrorCodes :
          error' = IF code = "not-allowed" \/ code = "service-not-allowed"
                   THEN ErrPermission
                   ELSE ErrRecognition
    /\ status' = ERROR
    /\ Handled("recError")
    /\ UNCHANGED <<conversation, transcript, finalTranscript, chatSession,
                   utterance, cancelled, boot, turnCalls, turns, finals, delivered, stopAt>>
    /\ UNCHANGED voiceState

\* Mutant of HandleRecognitionEnd: the test of line 198 is missing.
HandleRecognitionEndUnguarded ==
    /\ ProcessUserMessage(Trim(finalTranscript))
    /\ finalTranscript' = <<>>
    /\ transcript' = <<>>
    /\ consumed' = [called |-> TRUE, text |-> Trim(finalTranscript),
                    finals |-> delivered, stopAt |-> stopAt]
    /\ delivered' = <<>>
    /\ stopAt' = -1

\* handleRecognitionEnd (lines 196..204), the onend of the effect of line 193
\* for the committed status.
HandleRecognitionEnd ==
    IF status = LISTENING
    THEN /\ ProcessUserMessage(Trim(finalTranscript))
         /\ finalTranscript' = <<>>
         /\ transcript' = <<>>
         /\ consumed' = [called |-> TRUE, text |-> Trim(finalTranscript),
                         finals |-> delivered, stopAt |-> stopAt]
         /\ delivered' = <<>>
         /\ stopAt' = -1
    ELSE /\ consumed' = NoCall
         /\ UNCHANGED <<status, conversation, error, turnCalls, finalTranscript,
                        transcript, delivered, stopAt>>

\* The capture session ends (after stop(), after an error, or by itself).
RecEnd ==
    /\ recognition \in {"active", "stopping", "errored"}
    /\ recognition' = "inactive"
    /\ HandleRecognitionEnd
    /\ event' = "recEnd"
    /\ UNCHANGED <<chatSession, utterance, cancelled, boot, turns, finals>>
    /\ UNCHANGED voiceState

\* ------------------------------------------------------------ the control

\* Mutant of ButtonDisabled: the button is never disabled.
ButtonNeverDisabled == FALSE

\* disabled={status === AppStatus.THINKING} (line 299).
ButtonDisabled == status = THINKING

\* A tap on the disabled button: no click is dispatched.
TapDisabled ==
    /\ boot # "start"
    /\ ButtonDisabled
    /\ Handled("tap")
    /\ UNCHANGED <<program, turns, finals, delivered, stopAt>>
    /\ UNCHANGED voiceState

\* handleMicClick while SPEAKING (lines 216..222).
TapSpeaking ==
    /\ boot # "start"
    /\ ~ButtonDisabled
    /\ status = SPEAKING
    /\ error' = NoError
    /\ \E fires \in CancelChoices : Cancel(fires)
    /\ utterance' = NoUtterance
    /\ status' = IDLE
    /\ Handled("tap")
    /\ UNCHANGED <<conversation, transcript, finalTranscript, chatSession,
                   recognition, boot, turnCalls, turns, finals, delivered, stopAt>>
    /\ UNCHANGED voiceState

\* Mutant of TapListening: the tap that requests the stop also sets the status
\* to IDLE, without waiting for the end of the session.
TapListeningEager ==
    /\ boot # "start"
    /\ ~ButtonDisabled
    /\ status = LISTENING
    /\ error' = NoError
    /\ recognition' = Stopped(recognition)
    /\ status' = IDLE
    /\ stopAt' = IF stopAt = -1 THEN Len(delivered) ELSE stopAt
    /\ Handled("tap")
    /\ UNCHANGED <<conversation, transcript, finalTranscript, chatSession,
                   utterance, cancelled, boot, turnCalls, turns, finals, delivered>>
    /\ UNCHANGED voiceState

\* handleMicClick while LISTENING (lines 216, 224..226).
TapListening ==
    /\ boot # "start"
    /\ ~ButtonDisabled
    /\ status = LISTENING
    /\ error' = NoError
    /\ recognition' = Stopped(recognition)
    /\ stopAt' = IF stopAt = -1 THEN Len(delivered) ELSE stopAt
    /\ Handled("tap")
    /\ UNCHANGED <<status, conversation, transcript, finalTranscript, chatSession,
                   utterance, cancelled, boot, turnCalls, turns, finals, delivered>>
    /\ UNCHANGED voiceState

\* Mutant of TapStart: the setError(null) of line 216 is missing.
TapStartKeepsError ==
    /\ boot # "start"
    /\ ~ButtonDisabled
    /\ status \notin {SPEAKING, LISTENING}
    /\ turns < MaxTurns
    /\ turns' = turns + 1
    /\ finalTranscript' = <<>>
    /\ transcript' = <<>>
    /\ recognition' = Started(recognition)
    /\ status' = LISTENING
    /\ delivered' = <<>>
    /\ stopAt' = -1
    /\ Handled("tap")
    /\ UNCHANGED <<conversation, error, chatSession, utterance, cancelled, boot,
                   turnCalls, finals>>
    /\ UNCHANGED voiceState

\* Mutant of TapStart: lines 228..229 are missing, the transcript of the
\* previous session is not cleared.
TapStartKeepsTranscript ==
    /\ boot # "start"
    /\ ~ButtonDisabled
    /\ status \notin {SPEAKING, LISTENING}
    /\ turns < MaxTurns
    /\ turns' = turns + 1
    /\ error' = NoError
    /\ recognition' = Started(recognition)
    /\ status' = LISTENING
    /\ delivered' = <<>>
    /\ stopAt' = -1
    /\ Handled("tap")
    /\ UNCHANGED <<conversation, transcript, finalTranscript, chatSession,
                   utterance, cancelled, boot, turnCalls, finals>>
    /\ UNCHANGED voiceState

\* handleMicClick in any other status (lines 216, 227..232).
TapStart ==
    /\ boot # "start"
    /\ ~ButtonDisabled
    /\ status \notin {SPEAKING, LISTENING}
    /\ turns < MaxTurns
    /\ turns' = turns + 1
    /\ error' = NoError
    /\ finalTranscript' = <<>>
    /\ transcript' = <<>>
    /\ recognition' = Started(recognition)
    /\ status' = LISTENING
    /\ delivered' = <<>>
    /\ stopAt' = -1
    /\ Handled("tap")
    /\ UNCHANGED <<conversation, chatSession, utterance, cancelled, boot, turnCalls, finals>>
    /\ UNCHANGED voiceState

\* ---------------------------------------------------------- specification

Next ==
    \/ MountUnsupported
    \/ MountCreateFails
    \/ MountSends
    \/ BootReply
    \/ BootFail
    \/ TapDisabled
    \/ TapSpeaking
    \/ TapListening
    \/ TapStart
    \/ RecResult
    \/ RecError
    \/ RecEnd
    \/ TurnReply
    \/ TurnFail
    \/ SynthEnd
    \/ SynthError
    \/ LateSynthEnd
    \/ LateSynthError

Spec == Init /\ [][Next]_vars

\* The voice selection along the life of the component: the platform may hold
\* any catalog when the component mounts and change it any number of times
\* afterwards. The selected voice is read by speak only (lines 84..86), to set
\* utterance.voice.
VoiceInit ==
    /\ ProgramInit
    /\ voices \in Catalogs

VoiceNext ==
    \/ MountUnsupported
    \/ MountCreateFails
    \/ MountSends
    \/ VoicesChanged

VoiceSpec == VoiceInit /\ [][VoiceNext]_vars

TypeOK ==
    /\ status \in AppStatus
    /\ recognition \in {"none", "inactive", "active", "stopping", "errored"}
    /\ cancelled \in 0..MaxCancelled
    /\ turns \in 0..MaxTurns
    /\ turnCalls \in 0..MaxTurns
    /\ finals \in 0..MaxFinals /\ Len(delivered) <= MaxFinals
    /\ voices \in Catalogs
    /\ selectedVoice \in Voices \cup {NoVoice}

\* ------------------------------------------------------------ properties

\* A capture session is active (started, its error or end event not yet fired).
CaptureActive == recognition \in {"active", "stopping"}
\* A sendMessageToGemini call awaits its result.
BackendInFlight == boot = "inflight" \/ turnCalls > 0
\* Number of sendMessageToGemini calls awaiting their result.
InFlight == (IF boot = "inflight" THEN 1 ELSE 0) + turnCalls
\* An utterance is being spoken.
UtterancePlaying == utterance.speaking
Activities ==
    (IF CaptureActive THEN 1 ELSE 0) + (IF BackendInFlight THEN 1 ELSE 0)
    + (IF UtterancePlaying THEN 1 ELSE 0)
LateSynthEvents == {"lateSynthEnd", "lateSynthError"}
\* The final fragments of a consumed session delivered before / after stop().
BeforeStop(c) == SubSeq(c.finals, 1, c.stopAt)
AfterStop(c) == SubSeq(c.finals, c.stopAt + 1, Len(c.finals))

\* C1: after every event Status is one of the five values, at most one of
\* {capture session active, backend call in flight, utterance playing} holds,
\* a backend call is in flight only while Status is Thinking and an utterance
\* plays only while Status is Speaking.
C1_OneActivityAtATime ==
    boot # "start" =>
        /\ status \in AppStatus
        /\ Activities <= 1
        /\ (BackendInFlight => status = THINKING)
        /\ (UtterancePlaying => status = SPEAKING)

\* C2: a tap while Speaking cancels synthesis and sets Status to Idle, and an
\* end or error event of a cancelled utterance delivered afterwards changes
\* neither Status nor the conversation log.
C2_CancelledUtteranceIsSilent ==
    [][ /\ (status = SPEAKING /\ event' = "tap")
            => (status' = IDLE /\ ~utterance'.speaking)
        /\ (event' \in LateSynthEvents)
            => (status' = status /\ conversation' = conversation) ]_vars

\* C3: when the backend call of a user turn fails while Status is Thinking,
\* Status becomes Error, an error message is set, the User message of the turn
\* stays in the log and no Assistant message is appended.
C3_TurnFailureSetsError ==
    [][ (status = THINKING /\ event' = "turnFail")
            => /\ status' = ERROR
               /\ error' # NoError
               /\ conversation' = conversation ]_vars

\* C4: when the capture session ends while Status is Listening and the
\* finalized transcript is empty or whitespace-only, Status goes to Idle, the
\* log gains no entry and the backend is not called.
C4_BlankTranscriptEndsTurn ==
    [][ (status = LISTENING /\ event' = "recEnd" /\ Trim(finalTranscript) = <<>>)
            => /\ status' = IDLE
               /\ conversation' = conversation
               /\ turnCalls' = turnCalls
               /\ boot' = boot ]_vars
\* A session of whitespace-only final fragments has just been consumed.
C4_Witness ==
    /\ event = "recEnd"
    /\ consumed.called
    /\ consumed.finals # <<>>
    /\ consumed.text = <<>>
    /\ status = IDLE

\* C5 (as stated): the transcript consumed at session end equals the ordered,
\* space-separated concatenation of the final fragments of the session.
C5_ExactJoin ==
    consumed.called => consumed.text = JoinSpace(consumed.finals)
\* C5 (amended): the transcript consumed at session end equals the ordered,
\* space-separated concatenation of the final fragments of the session with
\* its leading and trailing whitespace removed, however the fragments were
\* split into batches; interim fragments never enter it.
C5_TrimmedJoin ==
    consumed.called => consumed.text = Trim(JoinSpace(consumed.finals))
\* Two final fragments were consumed as one non-blank transcript.
C5_Witness ==
    /\ consumed.called
    /\ Len(consumed.finals) = 2
    /\ consumed.text # <<>>

\* C6: a tap while Status is Thinking is ignored: Status, transcript state,
\* conversation log and the capture subsystem (and the rest of the program
\* state) are unchanged.
C6_TapWhileThinkingIgnored ==
    [][ (status = THINKING /\ event' = "tap") => UNCHANGED program ]_vars
\* A tap was made while a backend call was in flight in Thinking.
C6_Witness ==
    /\ event = "tap"
    /\ status = THINKING
    /\ turnCalls > 0

\* C7: at most one backend send call is in flight at any time.
C7_OneSendInFlight == InFlight <= 1

\* C8: from Status Error, whatever produced it, a tap clears the error, starts
\* a fresh capture session and sets Status to Listening.
C8_ErrorRecoverable ==
    [][ (status = ERROR /\ event' = "tap")
            => /\ error' = NoError
               /\ status' = LISTENING
               /\ recognition' = "active" ]_vars

\* C9 (as stated): a tap while Listening only requests the stop; Status then
\* stays Listening until the session-ended event fires, and the final
\* fragments delivered after the stop request are in the consumed transcript.
C9_ListeningUntilSessionEnd ==
    [][ /\ (status = LISTENING /\ event' = "tap")
            => (status' = LISTENING /\ recognition' # "active")
        /\ (status = LISTENING /\ stopAt >= 0 /\ event' # "recEnd")
            => status' = LISTENING
        /\ (consumed'.called /\ consumed'.stopAt >= 0)
            => consumed'.text
                 = Trim(JoinSpace(BeforeStop(consumed') \o AfterStop(consumed'))) ]_vars
\* C9 (amended): a tap while Listening only requests the stop and leaves
\* Status, the transcript and the log as they are; result batches delivered
\* afterwards do not change Status either; the transcript is consumed only by
\* the session-ended event, and it then includes every final fragment
\* delivered after the stop request.
C9_StopOnlyRequested ==
    [][ /\ (status = LISTENING /\ event' = "tap")
            => /\ status' = LISTENING
               /\ recognition' # "active"
               /\ UNCHANGED <<conversation, transcript, finalTranscript, turnCalls>>
        /\ (event' = "result")
            => status' = status
        /\ consumed'.called
            => (event' = "recEnd" /\ status = LISTENING)
        /\ (consumed'.called /\ consumed'.stopAt >= 0)
            => consumed'.text
                 = Trim(JoinSpace(BeforeStop(consumed') \o AfterStop(consumed'))) ]_vars
\* A final fragment delivered after the stop request has just been consumed.
C9_Witness ==
    /\ event = "recEnd"
    /\ consumed.called
    /\ consumed.stopAt >= 0
    /\ AfterStop(consumed) # <<>>
    /\ consumed.text # <<>>

\* C10: a turn with a non-blank finalized transcript t and a reply r goes
\* Idle -> Listening on the tap, -> Thinking at session end appending the User
\* message with the trimmed t, -> Speaking on the reply appending the
\* Assistant message r, and -> Idle on synthesis completion, appending nothing
\* else.
C10_CompleteTurn ==
    [][ /\ (status = IDLE /\ event' = "tap")
            => (status' = LISTENING /\ conversation' = conversation)
        /\ (status = LISTENING /\ event' = "recEnd" /\ chatSession
              /\ Trim(finalTranscript) # <<>>)
            => /\ status' = THINKING
               /\ turnCalls' = turnCalls + 1
               /\ conversation'
                    = Append(conversation, UserMessage(Trim(finalTranscript)))
        /\ (status = THINKING /\ event' = "turnReply")
            => /\ status' = SPEAKING
               /\ \E r \in Replies :
                     /\ conversation' = Append(conversation, AssistantMessage(r))
                     /\ utterance' = [speaking |-> TRUE, text |-> CleanedText(r)]
        /\ (status = SPEAKING /\ event' = "synthEnd")
            => (status' = IDLE /\ conversation' = conversation) ]_vars
\* A turn has just completed: greeting, User message, Assistant reply, Idle.
C10_Witness ==
    /\ event = "synthEnd"
    /\ status = IDLE
    /\ turns = 1
    /\ cancelled = 0
    /\ turnCalls = 0
    /\ Len(conversation) = 3
    /\ conversation[2] = UserMessage(<<"a", " ", " ", "a">>)
    /\ conversation[3].role = "assistant"

\* The events on which a sendMessageToGemini call returns its text.
ReplyEvents == {"bootReply", "turnReply"}

\* C11: the log gains an Assistant message exactly when a backend call returns
\* successfully, and a User message (the consumed text) exactly when a
\* non-empty finalized transcript is consumed at a session end; each such
\* event appends exactly one message and no other event changes the log.
C11_OneMessagePerEvent ==
    [][ LET replied == event' \in ReplyEvents
            spoken == consumed'.called /\ consumed'.text # <<>>
        IN  /\ replied
                => \E r \in Replies :
                      conversation' = Append(conversation, AssistantMessage(r))
            /\ spoken
                => conversation' = Append(conversation, UserMessage(consumed'.text))
            /\ (~replied /\ ~spoken)
                => conversation' = conversation ]_vars
\* Greeting, then one turn: one User message and its Assistant reply.
C11_Witness ==
    /\ event = "turnReply"
    /\ turnCalls = 0
    /\ Len(conversation) = 3
    /\ conversation[1].role = "assistant"
    /\ conversation[2].role = "user"
    /\ conversation[3].role = "assistant"

\* log is a prefix of longer: longer is log with messages appended.
IsPrefix(log, longer) ==
    /\ Len(log) <= Len(longer)
    /\ SubSeq(longer, 1, Len(log)) = log
\* The events that set Status to ERROR.
ErrorEvents == {"mount", "bootFail", "recError", "recEnd", "synthError",
                "lateSynthError"}

\* C12: the log is append-only: every step, the greeting reply and the steps
\* into Error included, leaves the previous log as a prefix of the new one.
C12_LogAppendOnly ==
    [][ IsPrefix(conversation, conversation') ]_vars
\* Status went to Error with a greeting and a User message already logged.
C12_Witness ==
    /\ status = ERROR
    /\ event \in ErrorEvents
    /\ Len(conversation) >= 2

\* What a session's final fragments leave in finalTranscriptRef.current: each
\* fragment followed by one space.
RECURSIVE Committed(_)
Committed(fs) ==
    IF fs = <<>> THEN <<>>
    ELSE Head(fs) \o <<" ">> \o Committed(Tail(fs))

\* C13: the finalized transcript is empty when a Listening session starts and
\* is cleared when it is consumed; while Status is Listening it holds the
\* final fragments of this session only, so the User message of a turn is
\* made of that turn's fragments and of nothing finalized earlier.
C13_TranscriptNeverLeaks ==
    [][ /\ (status # LISTENING /\ status' = LISTENING)
            => finalTranscript' = <<>>
        /\ consumed'.called
            => finalTranscript' = <<>>
        /\ status' = LISTENING
            => finalTranscript' = Committed(delivered')
        /\ (consumed'.called /\ consumed'.text # <<>>)
            => conversation'[Len(conversation')]
                 = UserMessage(Trim(Committed(consumed'.finals))) ]_vars
\* A second Listening session has started, with an empty transcript, before
\* the end event of a first session that finalized a fragment and then failed.
C13_Witness ==
    /\ status = LISTENING
    /\ event = "tap"
    /\ turns = 2
    /\ finals = 1
    /\ recognition = "errored"
    /\ finalTranscript = <<>>

\* C15: every click handled by handleMicClick leaves the error null, whatever
\* the status it was invoked in (the disabled button of THINKING dispatches no
\* click).
C15_TapClearsError ==
    [][ (event' = "tap" /\ status \in {IDLE, LISTENING, SPEAKING, ERROR})
            => error' = NoError ]_vars
\* The bootstrap failed for want of a recognizer (ERROR with a message, no
\* other event possible), and the tap that followed cleared the message.
C15_Witness ==
    /\ event = "tap"
    /\ recognition = "none"
    /\ turns = 1
    /\ status = LISTENING
    /\ error = NoError

\* C16: on mount initialize either creates the chat session, sets THINKING and
\* sends the greeting request, or (no recognizer, or the session cannot be
\* created) sets ERROR with a message on an empty log; while the greeting is
\* awaited the status is THINKING and the log empty; its reply makes the log
\* exactly one Assistant message and the status SPEAKING; its failure sets
\* ERROR with a message and leaves the log empty.
C16_Bootstrap ==
    [][ /\ event' = "mount"
            => \/ /\ status' = THINKING
                  /\ chatSession'
                  /\ boot' = "inflight"
                  /\ error' = NoError
                  /\ conversation' = <<>>
               \/ /\ status' = ERROR
                  /\ error' # NoError
                  /\ boot' = "done"
                  /\ conversation' = <<>>
        /\ boot = "inflight"
            => status = THINKING /\ conversation = <<>>
        /\ event' = "bootReply"
            => /\ status' = SPEAKING
               /\ utterance'.speaking
               /\ \E r \in Replies : conversation' = << AssistantMessage(r) >>
        /\ event' = "bootFail"
            => /\ status' = ERROR
               /\ error' # NoError
               /\ conversation' = <<>> ]_vars
\* The greeting has just arrived: one Assistant message, being spoken.
C16_Witness ==
    /\ event = "bootReply"
    /\ boot = "done"
    /\ status = SPEAKING
    /\ Len(conversation) = 1
    /\ conversation[1].role = "assistant"
    /\ utterance.text = CleanedText(conversation[1].text)

\* The events that resolve a sendMessageToGemini call with a failure, and the
\* events of the utterance being spoken.
FailureEvents == {"bootFail", "turnFail"}
SynthEvents == {"synthEnd", "synthError"}

\* C18: a backend call that resolves while Status is Thinking takes Status out
\* of Thinking, to Speaking on a reply and to Error on a failure; the end or
\* error event of the utterance spoken in Speaking leads to Idle or Error; and
\* Status is Thinking after an event only if a backend call is still awaited.
C18_ThinkingIsLeft ==
    [][ /\ (status = THINKING /\ event' \in ReplyEvents)
            => status' = SPEAKING
        /\ (status = THINKING /\ event' \in FailureEvents)
            => status' = ERROR
        /\ (status = SPEAKING /\ event' \in SynthEvents)
            => status' \in {IDLE, ERROR}
        /\ status' = THINKING
            => BackendInFlight' ]_vars

\* C19: the end event of a capture session that fires while the status is not
\* LISTENING changes nothing: processUserMessage is not called, so no User
\* message is appended and no backend call made, and status, error and the
\* transcripts are as they were.
C19_EndOutsideListeningIsInert ==
    [][ (event' = "recEnd" /\ status # LISTENING)
            => /\ ~consumed'.called
               /\ status' = status
               /\ conversation' = conversation
               /\ turnCalls' = turnCalls
               /\ boot' = boot
               /\ error' = error
               /\ finalTranscript' = finalTranscript
               /\ transcript' = transcript
               /\ utterance' = utterance ]_vars
\* A session that had finalized a fragment failed, and its end event has just
\* fired in ERROR: message and transcript are still there.
C19_Witness ==
    /\ event = "recEnd"
    /\ ~consumed.called
    /\ status = ERROR
    /\ error \in {ErrRecognition, ErrPermission}
    /\ recognition = "inactive"
    /\ finalTranscript # <<>>
    /\ \A i \in 1..Len(conversation) : conversation[i].role = "assistant"

\* C20: in every state after the first event, the status is ERROR exactly when
\* the error message is non-null.
C20_ErrorIffMessage ==
    (status = ERROR) <=> (error # NoError)

\* C14: across catalog updates, a selected voice that is non-null is never
\* overwritten, neither by another voice nor by null.
C14_ResolveOnce ==
    [][ selectedVoice # NoVoice => selectedVoice' = selectedVoice ]_vars

\* The place of a voice of the session locale in the priority chain: 1 for
\* the premium-engine name, 2 for the persona name, 3 for a female-gendered
\* name, 4 for the default voice, 5 for any other.
Rank(v) ==
    IF Includes(v.name, "Google") THEN 1
    ELSE IF Includes(v.name, "Aurelie") THEN 2
    ELSE IF Includes(v.name, "Female") \/ Includes(v.name, "Femme") THEN 3
    ELSE IF v.default THEN 4
    ELSE 5
\* The positions of the catalog that hold a voice of the session locale.
LocalVoices == { i \in 1..Len(voices) : voices[i].lang = SessionLocale }

\* C17: after loadVoices has run on a non-empty catalog, the selected voice is
\* null when the catalog has no voice of the session locale, and otherwise is
\* the voice of the session locale best placed in the priority chain, the
\* first in catalog order among equals; a voice of another locale is never
\* selected.
C17_PriorityChain ==
    (boot # "start" /\ voices # <<>>) =>
        IF LocalVoices = {}
        THEN selectedVoice = NoVoice
        ELSE \E i \in LocalVoices :
                /\ selectedVoice = voices[i]
                /\ \A j \in LocalVoices :
                      \/ Rank(voices[j]) > Rank(voices[i])
                      \/ Rank(voices[j]) = Rank(voices[i]) /\ j >= i
\* The catalog opens with a premium-engine voice of another locale: the plain
\* voice of the session locale behind it is the one selected.
C17_Witness ==
    /\ boot # "start"
    /\ Len(voices) = 2
    /\ voices[1].lang # SessionLocale
    /\ Includes(voices[1].name, "Google")
    /\ voices[2].lang = SessionLocale
    /\ Rank(voices[2]) = 5
    /\ selectedVoice = voices[2]

====
